---- MODULE Spec2Model ----
(***************************************************************************)
(* Model of the diagnostic parts of QCodeEditor:                           *)
(*   - QLineNumberArea's marker map (addDiagnosticMarker,                  *)
(*     clearDiagnosticMarkers, paintEvent), QLineNumberArea.cpp;           *)
(*   - QCodeEditor::InternalSpan, the interval type handed to the interval *)
(*     tree (overlaps, overlaps_exclusive, operator-), QCodeEditor.hpp.    *)
(***************************************************************************)
EXTENDS Integers, Sequences, FiniteSets, TLC

\* ------------------------------------------------------------------ bounds
\* Line numbers handed to addDiagnosticMarker range over 0..MaxLine.
MaxLine == 2
\* The document has 1..MaxBlocks text blocks.
MaxBlocks == 2
\* Dirty rectangles lie within the pixel rows 0..MaxY.
MaxY == 2
\* The model's int has IntBits bits (two's complement).
IntBits == 3

\* ------------------------------------------------ QCodeEditor::DiagnosticSeverity
Hint == 0
Information == 1
Warning == 2
Error == 3
DiagnosticSeverity == {Hint, Information, Warning, Error}

\* ------------------------------------------------------------------ state
VARIABLES
    m_diagnosticMarkers, \* QMap<int, DiagnosticSeverity>: a partial map
    updatePending,       \* update() was called and no paintEvent ran since
    painted,             \* the rows drawn by the handler that ran last
    lastOp,              \* history: the handler that ran last
    lastAdd,             \* history: the arguments of the last addDiagnosticMarker
    since,               \* history: per line, the severities added since the last clear
    wiped,               \* history: the map the last clear emptied, kept through
                         \*   the first add after that clear
    spanA, spanB,        \* two InternalSpan values
    spanRes              \* the result of the last InternalSpan operation on them

vars == <<m_diagnosticMarkers, updatePending, painted, lastOp, lastAdd, since, wiped,
          spanA, spanB, spanRes>>

gutterVars == <<m_diagnosticMarkers, updatePending, painted, lastOp>>
historyVars == <<lastAdd, since, wiped>>
spanVars == <<spanA, spanB, spanRes>>

Lines == 0 .. (MaxLine - 1)
LineArgs == 0 .. MaxLine
EmptyMap == <<>>

\* --------------------------------------------------------------- QMap, qMax
\* qMax(a, b): (a < b) ? b : a
qMaxLower(a, b) == IF a < b THEN a ELSE b
qMax(a, b) == IF a < b THEN b ELSE a

\* QMap::insert(key, value)
mapInsert(m, k, v) ==
    [x \in (DOMAIN m) \cup {k} |-> IF x = k THEN v ELSE m[x]]

\* QMap::contains(key), as paintEvent asks it of the block number
mapContainsAlways(m, k) == TRUE
mapContains(m, k) == k \in DOMAIN m

\* QMap::operator[](key) of a non-const map: a missing key is inserted with a
\* value-initialised severity (the enumerator 0, Hint)
mapSubscript(m, k) == IF k \in DOMAIN m THEN m ELSE mapInsert(m, k, Hint)

\* --------------------------------------------- QLineNumberArea: marker map
\* the body of the for loop of addDiagnosticMarker, for one i
addOne(m, severity, i) ==
    IF i \notin DOMAIN m
    THEN mapInsert(m, i, severity)
    ELSE [m EXCEPT ![i] = qMax(m[i], severity)]

\* for (int i = startLine; i < endLine; ++i) ...
RECURSIVE addLoop(_, _, _, _)
addLoop(m, severity, i, endLine) ==
    IF i < endLine
    THEN addLoop(addOne(m, severity, i), severity, i + 1, endLine)
    ELSE m

\* m_diagnosticMarkers.clear()
clearKeeps(m) == m
clearMap(m) == EmptyMap

addDiagnosticMarker(severity, startLine, endLine) ==
    /\ m_diagnosticMarkers' = addLoop(m_diagnosticMarkers, severity, startLine, endLine)
    /\ updatePending' = TRUE
    /\ painted' = <<>>
    /\ lastOp' = "add"

clearDiagnosticMarkers ==
    /\ m_diagnosticMarkers' = clearMap(m_diagnosticMarkers)
    /\ updatePending' = TRUE
    /\ painted' = <<>>
    /\ lastOp' = "clear"

\* ------------------------------------------------------------ history
AddCall(s, a, b) == [severity |-> s, startLine |-> a, endLine |-> b]

RecordAdd(s, a, b) ==
    /\ lastAdd' = AddCall(s, a, b)
    /\ since' = [i \in Lines |->
                    IF a <= i /\ i < b THEN since[i] \cup {s} ELSE since[i]]
    /\ wiped' = IF lastOp = "clear" THEN wiped ELSE EmptyMap

RecordClear ==
    /\ lastAdd' = lastAdd
    /\ since' = [i \in Lines |-> {}]
    /\ wiped' = m_diagnosticMarkers

GutterInit ==
    /\ m_diagnosticMarkers = EmptyMap
    /\ updatePending = FALSE
    /\ painted = <<>>
    /\ lastOp = "none"
    /\ lastAdd = AddCall(Hint, 0, 0)
    /\ since = [i \in Lines |-> {}]
    /\ wiped = EmptyMap

SpanIdle ==
    /\ spanA = [low |-> 0, high |-> 0]
    /\ spanB = [low |-> 0, high |-> 0]
    /\ spanRes = [op |-> "none"]

\* ------------------------------------------ specification of the marker map
Init == GutterInit /\ SpanIdle

Add ==
    \E s \in DiagnosticSeverity, a \in LineArgs, b \in LineArgs :
        /\ addDiagnosticMarker(s, a, b)
        /\ RecordAdd(s, a, b)
        /\ UNCHANGED spanVars

Clear ==
    /\ clearDiagnosticMarkers
    /\ RecordClear
    /\ UNCHANGED spanVars

Next == Add \/ Clear

Spec == Init /\ [][Next]_vars

\* ------------------------------------------- QLineNumberArea::paintEvent
\* What paintEvent reads of a text block: QTextBlock::isVisible() and the
\* height of its blockBoundingRect (a hidden block, one line, a wrapped line).
BlockLayout ==
    { [visible |-> FALSE, height |-> 0],
      [visible |-> TRUE, height |-> 1],
      [visible |-> TRUE, height |-> 2] }

\* The documents: blockCount blocks, numbered from 0, each with a layout.
Documents ==
    UNION { [blockCount : {n}, layout : [0 .. (n - 1) -> BlockLayout]] :
                n \in 1 .. MaxBlocks }

\* top of the first visible block, relative to the viewport
FirstTops == {-1, 0}

\* block.isValid() of the block numbered b
isValid(doc, b) == b >= 0 /\ b < doc.blockCount

\* (int) documentLayout()->blockBoundingRect(block).height(); an invalid
\* block has an empty rectangle
blockHeight(doc, b) == IF isValid(doc, b) THEN doc.layout[b].height ELSE 0

\* the switch over m_diagnosticMarkers[blockNumber]: the format whose colour
\* fills the marker
markerColor(severity) ==
    CASE severity = Error -> "Error"
      [] severity = Warning -> "Warning"
      [] severity = Information -> "Information"
      [] severity = Hint -> "Text"

\* while (block.isValid() && top <= dirtyBottom) { ... }
RECURSIVE paintLoop(_, _, _, _, _, _, _, _)
paintLoop(doc, dirtyTop, dirtyBottom, m, blockNumber, top, bottom, out) ==
    IF isValid(doc, blockNumber) /\ top <= dirtyBottom
    THEN LET drawn == doc.layout[blockNumber].visible /\ bottom >= dirtyTop
             marked == drawn /\ mapContains(m, blockNumber)
             m1 == IF marked THEN mapSubscript(m, blockNumber) ELSE m
             row == [number |-> blockNumber + 1,
                     top |-> top,
                     marker |-> IF marked THEN markerColor(m1[blockNumber])
                                          ELSE "none"]
         IN  paintLoop(doc, dirtyTop, dirtyBottom, m1, blockNumber + 1,
                       bottom, bottom + blockHeight(doc, blockNumber + 1),
                       IF drawn THEN Append(out, row) ELSE out)
    ELSE [markers |-> m, rows |-> out]

\* paintEvent, with a syntax style set (setSyntaxStyle). What it reads of the
\* editor is drawn by the caller: the document, getFirstVisibleBlock(), the
\* top of that block and the event's dirty rectangle. The colours, fonts and
\* the clip region change what is drawn, not which rows are, and are left out.
paintEvent(doc, firstVisibleBlock, firstTop, dirtyTop, dirtyBottom) ==
    LET done == paintLoop(doc, dirtyTop, dirtyBottom, m_diagnosticMarkers,
                          firstVisibleBlock, firstTop,
                          firstTop + blockHeight(doc, firstVisibleBlock), <<>>)
    IN  /\ m_diagnosticMarkers' = done.markers
        /\ painted' = done.rows
        /\ updatePending' = FALSE
        /\ lastOp' = "paint"

\* --------------------------------- specification of the gutter with painting
PaintAdd ==
    \E s \in DiagnosticSeverity, a \in LineArgs, b \in LineArgs :
        /\ addDiagnosticMarker(s, a, b)
        /\ UNCHANGED historyVars
        /\ UNCHANGED spanVars

PaintClear ==
    /\ clearDiagnosticMarkers
    /\ UNCHANGED historyVars
    /\ UNCHANGED spanVars

Paint ==
    \E doc \in Documents, firstTop \in FirstTops,
       dirtyTop \in 0 .. MaxY, dirtyBottom \in 0 .. MaxY :
        \E firstVisibleBlock \in 0 .. (doc.blockCount - 1) :
            /\ dirtyTop <= dirtyBottom
            /\ paintEvent(doc, firstVisibleBlock, firstTop, dirtyTop, dirtyBottom)
            /\ UNCHANGED historyVars
            /\ UNCHANGED spanVars

PaintNext == PaintAdd \/ PaintClear \/ Paint

SpecPaint == Init /\ [][PaintNext]_vars

\* --------------------------------------------- QCodeEditor::InternalSpan
\* value_type is int: IntBits bits, two's complement
IntMin == -(2 ^ (IntBits - 1))
IntMax == (2 ^ (IntBits - 1)) - 1
Ints == IntMin .. IntMax

\* InternalSpan(low, high), with assert(low <= high); diagIndex is read by
\* none of the operations below
InternalSpan == { [low |-> l, high |-> h] : l \in Ints, h \in Ints }
SpanValues == { s \in InternalSpan : s.low <= s.high }

\* x - y on int: the outcomes the subtraction can have. Signed overflow is
\* undefined, so any int can come out of it.
intSub(x, y) == IF (x - y) \in Ints THEN {x - y} ELSE Ints

\* bool overlaps(value_type l, value_type h) const
overlapsLowStrict(self, l, h) == self.low < h /\ l <= self.high
overlapsLH(self, l, h) == self.low <= h /\ l <= self.high

\* bool overlaps_exclusive(value_type l, value_type h) const
overlapsExclusiveLH(self, l, h) == self.low < h /\ l < self.high

\* bool overlaps(InternalSpan const &other) const
overlaps(self, other) == overlapsLH(self, other.low, other.high)

\* bool overlaps_exclusive(InternalSpan const &other) const
overlaps_exclusive(self, other) == overlapsExclusiveLH(self, other.low, other.high)

\* value_type operator-(InternalSpan const &other) const: the set of the
\* values the call can return
operatorMinusSwapped(self, other) ==
    IF overlaps(self, other)
    THEN {0}
    ELSE IF self.high < other.low
         THEN intSub(self.high, other.low)
         ELSE intSub(self.low, other.high)
operatorMinus(self, other) ==
    IF overlaps(self, other)
    THEN {0}
    ELSE IF self.high < other.low
         THEN intSub(other.low, self.high)
         ELSE intSub(self.low, other.high)

\* ---------------------------------------- specification of InternalSpan
SpanInit ==
    /\ spanA \in SpanValues
    /\ spanB \in SpanValues
    /\ spanRes = [op |-> "none"]

InitSpan == GutterInit /\ SpanInit

\* a - b and b - a
Subtract ==
    /\ \E x \in operatorMinus(spanA, spanB), y \in operatorMinus(spanB, spanA) :
          spanRes' = [op |-> "minus", ab |-> x, ba |-> y]
    /\ UNCHANGED <<spanA, spanB>>
    /\ UNCHANGED <<gutterVars, historyVars>>

\* a.overlaps(b) and b.overlaps(a)
Overlaps ==
    /\ spanRes' = [op |-> "overlaps",
                   ab |-> overlaps(spanA, spanB),
                   ba |-> overlaps(spanB, spanA)]
    /\ UNCHANGED <<spanA, spanB>>
    /\ UNCHANGED <<gutterVars, historyVars>>

\* a.overlaps_exclusive(b) and b.overlaps_exclusive(a)
OverlapsExclusive ==
    /\ spanRes' = [op |-> "overlaps_exclusive",
                   ab |-> overlaps_exclusive(spanA, spanB),
                   ba |-> overlaps_exclusive(spanB, spanA)]
    /\ UNCHANGED <<spanA, spanB>>
    /\ UNCHANGED <<gutterVars, historyVars>>

SpanNext == Subtract \/ Overlaps \/ OverlapsExclusive

SpecSpan == InitSpan /\ [][SpanNext]_vars

\* ------------------------------------------------------- marker map claims
SetMax(S) == CHOOSE x \in S : \A y \in S : y <= x

Covers(call, i) == call.startLine <= i /\ i < call.endLine

\* C1: after any sequence of addDiagnosticMarker and clearDiagnosticMarkers
\* calls, every line either has no entry in the marker map (no add since the
\* last clear covered it) or holds exactly the maximum severity, under
\* Hint < Information < Warning < Error, of the adds since the last clear
\* that covered it.
C1_MaxSeverity ==
    /\ DOMAIN m_diagnosticMarkers \subseteq Lines
    /\ \A i \in Lines :
          IF since[i] = {}
          THEN i \notin DOMAIN m_diagnosticMarkers
          ELSE /\ i \in DOMAIN m_diagnosticMarkers
               /\ m_diagnosticMarkers[i] = SetMax(since[i])

\* A lower severity was just added over a line that already held a higher
\* one, which it keeps, while another line has no entry at all.
C1_Witness ==
    /\ lastOp = "add"
    /\ \E i \in Lines, j \in Lines :
          /\ Covers(lastAdd, i)
          /\ Cardinality(since[i]) >= 2
          /\ i \in DOMAIN m_diagnosticMarkers
          /\ lastAdd.severity < m_diagnosticMarkers[i]
          /\ j \notin DOMAIN m_diagnosticMarkers

\* C2: clearDiagnosticMarkers leaves the marker map empty whatever came
\* before, so the addDiagnosticMarker(s, a, b) that follows it gives every line
\* of [a, b) exactly severity s.
C2_ClearThenAdd ==
    [][ /\ (lastOp' = "clear" => m_diagnosticMarkers' = EmptyMap)
        /\ (lastOp = "clear" /\ lastOp' = "add") =>
              \A i \in Lines :
                  Covers(lastAdd', i) =>
                      /\ i \in DOMAIN m_diagnosticMarkers'
                      /\ m_diagnosticMarkers'[i] = lastAdd'.severity
      ]_vars

\* The add after a clear covered a line that held a higher severity before
\* the clear; the line now holds the added severity.
C2_Witness ==
    /\ lastOp = "add"
    /\ \E i \in Lines :
          /\ Covers(lastAdd, i)
          /\ i \in DOMAIN wiped
          /\ wiped[i] > lastAdd.severity
          /\ i \in DOMAIN m_diagnosticMarkers
          /\ m_diagnosticMarkers[i] = lastAdd.severity

\* -------------------------------------------------------- paintEvent claim
\* C3: paintEvent leaves the marker map unchanged, whatever the marker map,
\* the document and the dirty rectangle; it inserts no entry for a block that
\* has no marker.
C3_PaintKeepsMarkers ==
    [][ lastOp' = "paint" =>
            /\ m_diagnosticMarkers' = m_diagnosticMarkers
            /\ DOMAIN m_diagnosticMarkers' = DOMAIN m_diagnosticMarkers
      ]_vars

\* paintEvent has drawn a block that has a marker and a block that has none.
C3_Witness ==
    /\ lastOp = "paint"
    /\ \E r1 \in 1 .. Len(painted), r2 \in 1 .. Len(painted) :
          /\ painted[r1].marker # "none"
          /\ painted[r2].marker = "none"
          /\ (painted[r2].number - 1) \notin DOMAIN m_diagnosticMarkers

\* ------------------------------------------------------ InternalSpan claims
\* Two spans overlap as closed intervals: some value lies in both.
SharePoint(a, b) ==
    \E x \in Ints : a.low <= x /\ x <= a.high /\ b.low <= x /\ x <= b.high

\* The gap between the nearer endpoints of two spans that share no point.
Gap(a, b) == IF a.high < b.low THEN b.low - a.high ELSE a.low - b.high

\* The spans touch at an endpoint: a.high = b.low, both of positive size.
Touching(a, b) == a.high = b.low /\ a.low < a.high /\ b.low < b.high

DistanceIsGap ==
    /\ (spanRes.ab = 0) <=> SharePoint(spanA, spanB)
    /\ ~SharePoint(spanA, spanB) =>
          /\ spanRes.ab > 0
          /\ spanRes.ab = Gap(spanA, spanB)
    /\ spanRes.ab = spanRes.ba

\* C4, as stated: for all spans a and b (low <= high), a - b is 0 exactly when
\* a and b overlap as closed intervals, otherwise it is the strictly positive
\* gap between the nearer endpoints, and a - b equals b - a.
C4_AsStated == spanRes.op = "minus" => DistanceIsGap

\* C4, amended: the same, for the spans a and b whose gap is at most INT_MAX
\* (all spans with non-negative endpoints are such).
C4_DistanceWhenRepresentable ==
    (spanRes.op = "minus" /\
        (SharePoint(spanA, spanB) \/ Gap(spanA, spanB) <= IntMax))
    => DistanceIsGap

\* a - b and b - a were computed for two spans that lie apart, one of them
\* with negative endpoints, and for two spans that overlap.
C4_WitnessApart ==
    /\ spanRes.op = "minus"
    /\ ~SharePoint(spanA, spanB)
    /\ spanA.high < 0
    /\ spanB.low > spanA.high + 1
    /\ spanRes.ab = Gap(spanA, spanB)
    /\ spanRes.ba = spanRes.ab

\* C5: overlaps and overlaps_exclusive are symmetric, overlaps_exclusive
\* implies overlaps, and two spans that only touch at an endpoint overlap
\* under overlaps but not under overlaps_exclusive.
C5_OverlapTests ==
    /\ spanRes.op = "overlaps" =>
          /\ spanRes.ab = spanRes.ba
          /\ ~overlaps_exclusive(spanA, spanB) \/ spanRes.ab
          /\ Touching(spanA, spanB) => spanRes.ab
    /\ spanRes.op = "overlaps_exclusive" =>
          /\ spanRes.ab = spanRes.ba
          /\ spanRes.ab => overlaps(spanA, spanB)
          /\ Touching(spanA, spanB) => ~spanRes.ab

\* overlaps_exclusive was asked of two spans that touch at an endpoint and
\* answered no, while they do share that point.
C5_Witness ==
    /\ spanRes.op = "overlaps_exclusive"
    /\ Touching(spanA, spanB)
    /\ spanRes.ab = FALSE
    /\ spanRes.ba = FALSE
    /\ SharePoint(spanA, spanB)

====
